---- MODULE Spec2Model ----
(***************************************************************************)
(* NYC Rent Map: the time-series store, color scale and legend             *)
(* (js/data.js), the application initialisation and its slider, close and  *)
(* sidebar listeners (js/app.js), and the map module's member table,       *)
(* feature handlers, fill colors and panels (js/map.js).                   *)
(*                                                                         *)
(* JavaScript values are records [t, n, d]: t is "null", "undefined" or    *)
(* "num"; a number is the exact rational n/d in lowest terms with d > 0.   *)
(* A month "YYYY-MM" is the integer YYYYMM; the empty string '' is 0.       *)
(* A ZIP code is a positive integer; for...in visits integer-like keys in  *)
(* ascending numeric order.                                                *)
(***************************************************************************)
EXTENDS Integers, Sequences, FiniteSets, TLC

VARIABLES
    timeSeries,        \* DataUtils.timeSeries
    availableDates,    \* DataUtils.availableDates
    startDateIndex,    \* DataUtils.startDateIndex
    endDateIndex,      \* DataUtils.endDateIndex
    pc,                \* position of App.init
    geoData,           \* value loadGeoJSON resolved to
    timeSeriesLoaded,  \* value loadTimeSeries resolved to
    response,          \* body the time-series fetch delivered
    settled,           \* the loads in the order they completed
    startSlider,       \* #start-slider: min, max, value
    endSlider,         \* #end-slider: min, max, value
    errorShown,        \* number of App.showError calls
    sliderSetup,       \* App.setupSlider ran past its early return
    geojsonLayer,      \* MapModule.geojsonLayer
    legend,            \* legend control added to the map
    listenersAttached, \* App.setupEventListeners ran
    selectedZipcode,   \* MapModule.selectedZipcode
    selectedLayer,     \* MapModule.selectedLayer: the layer of a feature, by its ZIP
    fillColor,         \* fillColor of each feature layer's path style
    detailPanel,       \* #detail-panel: hidden class and the figures it shows
    hoverPanel,        \* #hover-panel: hidden class and the figures it shows
    event,             \* last DOM event delivered after page load: type and target
    ret                \* last call of a DataUtils function: name, arguments, results

vars == <<timeSeries, availableDates, startDateIndex, endDateIndex, pc, geoData,
          timeSeriesLoaded, response, settled, startSlider, endSlider, errorShown,
          sliderSetup, geojsonLayer, legend, listenersAttached, selectedZipcode,
          selectedLayer, fillColor, detailPanel, hoverPanel, event, ret>>

storeVars == <<timeSeries, availableDates, startDateIndex, endDateIndex>>

uiVars == <<selectedZipcode, selectedLayer, fillColor, detailPanel, hoverPanel, event>>

appVars == <<pc, geoData, timeSeriesLoaded, response, settled, startSlider, endSlider,
             errorShown, sliderSetup, geojsonLayer, legend, listenersAttached, uiVars>>

----------------------------------------------------------------------------
(* Bounds *)

MaxZips == 2          \* ZIPs in a small rent table
MaxTopZips == 12      \* ZIPs in a ranking table
MaxOdd == 2           \* ZIPs of a ranking table that differ from the common series
MaxRaw == 4           \* largest raw slider position tried

----------------------------------------------------------------------------
(* JavaScript values *)

Null == [t |-> "null", n |-> 0, d |-> 1]

Undefined == [t |-> "undefined", n |-> 0, d |-> 1]

AbsInt(i) == IF i < 0 THEN -i ELSE i

RECURSIVE GCD(_, _)
GCD(a, b) == IF b = 0 THEN a ELSE GCD(b, a % b)

\* the number n/d (d # 0) in lowest terms
Num(n, d) ==
    LET s == IF d < 0 THEN -1 ELSE 1
        g == GCD(AbsInt(n), AbsInt(d))
    IN  [t |-> "num", n |-> (s * n) \div g, d |-> (s * d) \div g]

R(i) == [t |-> "num", n |-> i, d |-> 1]

QAdd(a, b) == Num(a.n * b.d + b.n * a.d, a.d * b.d)

QSub(a, b) == Num(a.n * b.d - b.n * a.d, a.d * b.d)

QMul(a, b) == Num(a.n * b.n, a.d * b.d)

QDiv(a, b) == Num(a.n * b.d, a.d * b.n)

QLess(a, b) == a.n * b.d < b.n * a.d

QLeq(a, b) == a.n * b.d <= b.n * a.d

QAbs(a) == [t |-> "num", n |-> AbsInt(a.n), d |-> a.d]

\* ToBoolean(v) = false
Falsy(v) == v.t \in {"null", "undefined"} \/ (v.t = "num" /\ v.n = 0)

----------------------------------------------------------------------------
(* The store's containers *)

NoObject == [t |-> "null", o |-> <<>>]

UndefinedObject == [t |-> "undefined", o |-> <<>>]

Obj(o) == [t |-> "obj", o |-> o]

Arr(a) == [t |-> "arr", a |-> a]

UndefinedArray == [t |-> "undefined", a |-> <<>>]

EmptyDate == 0

\* the keys of an object whose keys are integers, in for...in order
RECURSIVE KeysInOrder(_)
KeysInOrder(S) ==
    IF S = {} THEN <<>>
    ELSE LET m == CHOOSE x \in S : \A y \in S : x <= y
         IN  <<m>> \o KeysInOrder(S \ {m})

\* o[key] of a JSON object held as a function
Prop(o, key) == IF key \in DOMAIN o THEN o[key] ELSE Undefined

----------------------------------------------------------------------------
(* DataUtils *)

\* the object DataUtils as it is now; the operators named ...On take the
\* object as `this`, so that a handler can read it after its own assignments
DataUtils ==
    [timeSeries |-> timeSeries, availableDates |-> availableDates,
     startDateIndex |-> startDateIndex, endDateIndex |-> endDateIndex]

getStartDateOn(this) ==
    IF this.startDateIndex + 1 \in 1..Len(this.availableDates.a)
    THEN this.availableDates.a[this.startDateIndex + 1]
    ELSE EmptyDate

getStartDate == getStartDateOn(DataUtils)

getEndDateOn(this) ==
    IF this.endDateIndex + 1 \in 1..Len(this.availableDates.a)
    THEN this.availableDates.a[this.endDateIndex + 1]
    ELSE EmptyDate

getEndDate == getEndDateOn(DataUtils)

getStartRentForZipOn(this, zipcode) ==
    IF this.timeSeries.t # "obj" \/ zipcode \notin DOMAIN this.timeSeries.o
    THEN Null
    ELSE LET v == Prop(this.timeSeries.o[zipcode], getStartDateOn(this))
         IN  IF Falsy(v) THEN Null ELSE v

getStartRentForZip(zipcode) == getStartRentForZipOn(DataUtils, zipcode)

getEndRentForZipOn(this, zipcode) ==
    IF this.timeSeries.t # "obj" \/ zipcode \notin DOMAIN this.timeSeries.o
    THEN Null
    ELSE LET v == Prop(this.timeSeries.o[zipcode], getEndDateOn(this))
         IN  IF Falsy(v) THEN Null ELSE v

getEndRentForZip(zipcode) == getEndRentForZipOn(DataUtils, zipcode)

getPercentChangeFlipped(startRent, endRent) ==
    IF startRent = Null \/ endRent = Null \/ startRent = R(0)
    THEN Null
    ELSE QMul(QDiv(QSub(startRent, endRent), startRent), R(100))

getPercentChange(startRent, endRent) ==
    IF startRent = Null \/ endRent = Null \/ startRent = R(0)
    THEN Null
    ELSE QMul(QDiv(QSub(endRent, startRent), startRent), R(100))

colors == << "#f7fbff", "#deebf7", "#c6dbef", "#9ecae1",
             "#6baed6", "#4292c6", "#2171b5", "#084594" >>

breaks == << 1500, 2000, 2500, 3000, 3500, 4000, 4500, 5000 >>

NoDataColor == "#cccccc"

\* a loop that tests rent <= breaks[i]
RECURSIVE ColorLoopAtMost(_, _)
ColorLoopAtMost(rent, i) ==
    IF i > Len(breaks) THEN colors[Len(colors)]
    ELSE IF QLeq(rent, R(breaks[i])) THEN colors[i]
         ELSE ColorLoopAtMost(rent, i + 1)

\* the for loop of getColor from index i on
RECURSIVE ColorLoop(_, _)
ColorLoop(rent, i) ==
    IF i > Len(breaks) THEN colors[Len(colors)]
    ELSE IF QLess(rent, R(breaks[i])) THEN colors[i]
         ELSE ColorLoop(rent, i + 1)

\* a getColor that tests rent === null only; undefined < breaks[0] is false
\* for every break, so the loop falls through to the last color
getColorNullOnly(rent) ==
    IF rent = Null THEN NoDataColor
    ELSE IF rent = Undefined THEN colors[Len(colors)]
    ELSE ColorLoop(rent, 1)

getColor(rent) ==
    IF rent = Null \/ rent = Undefined THEN NoDataColor ELSE ColorLoop(rent, 1)

Digits == << "0", "1", "2", "3", "4", "5", "6", "7", "8", "9" >>

\* the decimal digits of a natural number
RECURSIVE Decimal(_)
Decimal(n) ==
    IF n < 10 THEN Digits[n + 1] ELSE Decimal(n \div 10) \o Digits[(n % 10) + 1]

\* a group of three digits, zero-padded
Group3(n) ==
    Digits[(n \div 100) + 1] \o Digits[((n \div 10) % 10) + 1] \o Digits[(n % 10) + 1]

\* Number.prototype.toLocaleString() of a natural number in the en-US locale:
\* groups of three digits separated by commas
RECURSIVE toLocaleString(_)
toLocaleString(n) ==
    IF n < 1000 THEN Decimal(n)
    ELSE toLocaleString(n \div 1000) \o "," \o Group3(n % 1000)

\* the label of the palette color at 0-based index i
LegendLabel(i) ==
    IF i = 0 THEN "< $" \o toLocaleString(breaks[0 + 1])
    ELSE IF i = Len(colors) - 1 THEN "$" \o toLocaleString(breaks[(i - 1) + 1]) \o "+"
    ELSE "$" \o toLocaleString(breaks[(i - 1) + 1]) \o " - $"
             \o toLocaleString(breaks[i + 1])

\* a legend whose last label is built from the last break, breaks[i]
getLegendItemsLastBreak ==
    [i \in 1..Len(colors) |->
        [color |-> colors[i],
         label |-> IF i = Len(colors) THEN "$" \o toLocaleString(breaks[i]) \o "+"
                   ELSE LegendLabel(i - 1)]]
    \o << [color |-> NoDataColor, label |-> "No data"] >>

getLegendItems ==
    [i \in 1..Len(colors) |-> [color |-> colors[i], label |-> LegendLabel(i - 1)]]
    \o << [color |-> NoDataColor, label |-> "No data"] >>

\* MapModule.style(feature).fillColor
styleOn(this, zipcode) == getColor(getEndRentForZipOn(this, zipcode))

style(zipcode) == styleOn(DataUtils, zipcode)

\* the for...in loop of getNYCAggregateData: <<totalStartRent, totalEndRent, count>>
RECURSIVE AggregateLoopOn(_, _, _)
AggregateLoopOn(this, keys, acc) ==
    IF keys = <<>> THEN acc
    ELSE LET startRent == getStartRentForZipOn(this, Head(keys))
             endRent == getEndRentForZipOn(this, Head(keys))
         IN  IF startRent # Null /\ endRent # Null
             THEN AggregateLoopOn(this, Tail(keys),
                      <<QAdd(acc[1], startRent), QAdd(acc[2], endRent), acc[3] + 1>>)
             ELSE AggregateLoopOn(this, Tail(keys), acc)

AggregateLoop(keys, acc) == AggregateLoopOn(DataUtils, keys, acc)

\* a loop that sums the per-ZIP percent changes: <<sum of percents, count>>
RECURSIVE PercentSumLoop(_, _, _)
PercentSumLoop(this, keys, acc) ==
    IF keys = <<>> THEN acc
    ELSE LET p == getPercentChange(getStartRentForZipOn(this, Head(keys)),
                                   getEndRentForZipOn(this, Head(keys)))
         IN  IF p # Null
             THEN PercentSumLoop(this, Tail(keys), <<QAdd(acc[1], p), acc[2] + 1>>)
             ELSE PercentSumLoop(this, Tail(keys), acc)

getNYCAggregateDataMeanOfPercentsOn(this) ==
    IF this.timeSeries.t # "obj"
    THEN [startRent |-> Null, endRent |-> Null, percentChange |-> Null,
          zipCount |-> Undefined]
    ELSE LET keys == KeysInOrder(DOMAIN this.timeSeries.o)
             tot == AggregateLoopOn(this, keys, <<R(0), R(0), 0>>)
             ps == PercentSumLoop(this, keys, <<R(0), 0>>)
             count == tot[3]
         IN  IF count = 0
             THEN [startRent |-> Null, endRent |-> Null, percentChange |-> Null,
                   zipCount |-> R(0)]
             ELSE [startRent |-> QDiv(tot[1], R(count)),
                   endRent |-> QDiv(tot[2], R(count)),
                   percentChange |-> IF ps[2] = 0 THEN Null
                                     ELSE QDiv(ps[1], R(ps[2])),
                   zipCount |-> R(count)]

getNYCAggregateDataOn(this) ==
    IF this.timeSeries.t # "obj"
    THEN [startRent |-> Null, endRent |-> Null, percentChange |-> Null,
          zipCount |-> Undefined]
    ELSE LET tot == AggregateLoopOn(this, KeysInOrder(DOMAIN this.timeSeries.o),
                                    <<R(0), R(0), 0>>)
             count == tot[3]
         IN  IF count = 0
             THEN [startRent |-> Null, endRent |-> Null, percentChange |-> Null,
                   zipCount |-> R(0)]
             ELSE LET avgStartRent == QDiv(tot[1], R(count))
                      avgEndRent == QDiv(tot[2], R(count))
                  IN  [startRent |-> avgStartRent,
                       endRent |-> avgEndRent,
                       percentChange |-> getPercentChange(avgStartRent, avgEndRent),
                       zipCount |-> R(count)]

getNYCAggregateData == getNYCAggregateDataOn(DataUtils)

\* the for...in loop of getTop10ByChange: the array `changes`
RECURSIVE ChangesLoop(_)
ChangesLoop(keys) ==
    IF keys = <<>> THEN <<>>
    ELSE LET percentChange == getPercentChange(getStartRentForZip(Head(keys)),
                                               getEndRentForZip(Head(keys)))
         IN  IF percentChange # Null
             THEN <<[zipcode |-> Head(keys),
                     percentChange |-> percentChange,
                     absChange |-> QAbs(percentChange)]>> \o ChangesLoop(Tail(keys))
             ELSE ChangesLoop(Tail(keys))

\* x put into the sorted array before its equals
RECURSIVE InsertBeforeEquals(_, _)
InsertBeforeEquals(sorted, x) ==
    IF sorted = <<>> THEN <<x>>
    ELSE IF QLeq(Head(sorted).absChange, x.absChange)
         THEN <<x>> \o sorted
         ELSE <<Head(sorted)>> \o InsertBeforeEquals(Tail(sorted), x)

\* x put into an array sorted by (a, b) => b.absChange - a.absChange, after its equals
RECURSIVE InsertByAbsChange(_, _)
InsertByAbsChange(sorted, x) ==
    IF sorted = <<>> THEN <<x>>
    ELSE IF QLess(Head(sorted).absChange, x.absChange)
         THEN <<x>> \o sorted
         ELSE <<Head(sorted)>> \o InsertByAbsChange(Tail(sorted), x)

\* Array.prototype.sort with that comparator (a stable sort)
RECURSIVE SortByAbsChange(_, _)
SortByAbsChange(sorted, rest) ==
    IF rest = <<>> THEN sorted
    ELSE SortByAbsChange(InsertByAbsChange(sorted, Head(rest)), Tail(rest))

\* Array.prototype.slice(0, end)
Slice0(a, end) == SubSeq(a, 1, IF Len(a) < end THEN Len(a) ELSE end)

TopN == 10

getTop10ByChangeUnsorted ==
    IF timeSeries.t # "obj" THEN <<>>
    ELSE Slice0(ChangesLoop(KeysInOrder(DOMAIN timeSeries.o)), TopN)

getTop10ByChange ==
    IF timeSeries.t # "obj" THEN <<>>
    ELSE Slice0(SortByAbsChange(<<>>, ChangesLoop(KeysInOrder(DOMAIN timeSeries.o))), TopN)

----------------------------------------------------------------------------
(* DataUtils.loadTimeSeries *)

\* what the fetch of rent_timeseries.json can deliver
FetchKinds == {"unreachable", "httpError", "badJson", "jsonNull", "noDates", "noData", "ok"}

\* the store and the returned flag after loadTimeSeries met the body `body`,
\* with an end index one past the last date
loadTimeSeriesEndAtLength(body, old) ==
    IF body.kind \in {"unreachable", "httpError", "badJson", "jsonNull"}
    THEN [old EXCEPT !.result = FALSE]
    ELSE IF body.kind = "noDates"
    THEN [timeSeries |-> body.data, availableDates |-> UndefinedArray,
          startDateIndex |-> 0, endDateIndex |-> old.endDateIndex, result |-> FALSE]
    ELSE [timeSeries |-> IF body.kind = "noData" THEN UndefinedObject ELSE body.data,
          availableDates |-> body.dates,
          startDateIndex |-> 0,
          endDateIndex |-> Len(body.dates.a),
          result |-> TRUE]

\* ascending insertion of a date into a sorted array
RECURSIVE InsertDate(_, _)
InsertDate(sorted, x) ==
    IF sorted = <<>> THEN <<x>>
    ELSE IF x < Head(sorted) THEN <<x>> \o sorted
         ELSE <<Head(sorted)>> \o InsertDate(Tail(sorted), x)

RECURSIVE SortDates(_)
SortDates(a) == IF a = <<>> THEN <<>> ELSE InsertDate(SortDates(Tail(a)), Head(a))

\* the same with the dates sorted on the way in
loadTimeSeriesSorting(body, old) ==
    IF body.kind \in {"unreachable", "httpError", "badJson", "jsonNull"}
    THEN [old EXCEPT !.result = FALSE]
    ELSE IF body.kind = "noDates"
    THEN [timeSeries |-> body.data, availableDates |-> UndefinedArray,
          startDateIndex |-> 0, endDateIndex |-> old.endDateIndex, result |-> FALSE]
    ELSE [timeSeries |-> IF body.kind = "noData" THEN UndefinedObject ELSE body.data,
          availableDates |-> Arr(SortDates(body.dates.a)),
          startDateIndex |-> 0,
          endDateIndex |-> Len(body.dates.a) - 1,
          result |-> TRUE]

\* the store and the returned flag after loadTimeSeries met the body `body`:
\* a throw before line 94 changes nothing; a body without `dates` throws at
\* line 97, after three assignments
loadTimeSeries(body, old) ==
    IF body.kind \in {"unreachable", "httpError", "badJson", "jsonNull"}
    THEN [old EXCEPT !.result = FALSE]
    ELSE IF body.kind = "noDates"
    THEN [timeSeries |-> body.data, availableDates |-> UndefinedArray,
          startDateIndex |-> 0, endDateIndex |-> old.endDateIndex, result |-> FALSE]
    ELSE [timeSeries |-> IF body.kind = "noData" THEN UndefinedObject ELSE body.data,
          availableDates |-> body.dates,
          startDateIndex |-> 0,
          endDateIndex |-> Len(body.dates.a) - 1,
          result |-> TRUE]

Store == [timeSeries |-> timeSeries, availableDates |-> availableDates,
          startDateIndex |-> startDateIndex, endDateIndex |-> endDateIndex,
          result |-> FALSE]

----------------------------------------------------------------------------
(* Inputs *)

Jan == 201501

Feb == 201502

Mar == 201503

\* a ZIP's series {Jan: a, Feb: b}; Undefined leaves the key out
Series(a, b) ==
    [k \in (IF a = Undefined THEN {} ELSE {Jan}) \cup (IF b = Undefined THEN {} ELSE {Feb})
        |-> IF k = Jan THEN a ELSE b]

SmallSeries ==
    { Series(R(1000), R(1100)), Series(R(1100), R(1000)), Series(R(1000), R(1000)),
      Series(R(0), R(1000)), Series(R(1000), R(0)), Series(Null, R(1000)),
      Series(R(1000), Undefined), Series(Undefined, Undefined) }

\* rent tables of ZIPs 1..n, n <= MaxZips
SmallTables == UNION { [1..n -> SmallSeries] : n \in 0..MaxZips }

DateAxes == { <<>>, <<Jan>>, <<Jan, Feb>>, <<Feb, Jan>>, <<Jan, Feb, Mar>> }

\* bodies of rent_timeseries.json met by the application
BodyTables ==
    { <<>>, <<Series(R(1000), R(1100))>>,
      <<Series(R(1000), R(1100)), Series(R(0), R(1000))>> }

NoBody == [kind |-> "none", dates |-> UndefinedArray, data |-> UndefinedObject]

Bodies ==
    { [kind |-> k, dates |-> UndefinedArray, data |-> UndefinedObject] :
          k \in {"unreachable", "httpError", "badJson", "jsonNull"} }
    \cup { [kind |-> "noDates", dates |-> UndefinedArray, data |-> Obj(t)] : t \in BodyTables }
    \cup { [kind |-> "noData", dates |-> Arr(a), data |-> UndefinedObject] : a \in DateAxes }
    \cup { [kind |-> "ok", dates |-> Arr(a), data |-> Obj(t)] : a \in DateAxes, t \in BodyTables }

\* what loadGeoJSON resolves to: null, or a feature collection (its ZIP codes)
GeoPending == [t |-> "pending", features |-> {}]

GeoNull == [t |-> "null", features |-> {}]

GeoResults == { GeoNull } \cup { [t |-> "obj", features |-> f] : f \in {{1}, {1, 2, 3}} }

RawIndex == -1..MaxRaw

----------------------------------------------------------------------------
(* The sliders: <input type="range"> elements of the page *)

SliderHtmlMin == 0

SliderHtmlMax == 100

SliderHtmlValue == 50

\* value sanitisation of a range input
RangeValue(v, min, max) ==
    IF max < min THEN min
    ELSE IF v < min THEN min
    ELSE IF v > max THEN max
    ELSE v

HtmlSlider == [min |-> SliderHtmlMin, max |-> SliderHtmlMax, value |-> SliderHtmlValue]

\* App.setupSlider: the two sliders afterwards
setupSlider ==
    IF Len(availableDates.a) = 0
    THEN [start |-> startSlider, end |-> endSlider, done |-> FALSE]
    ELSE LET maxIndex == Len(availableDates.a) - 1
         IN  [start |-> [min |-> 0, max |-> maxIndex, value |-> RangeValue(0, 0, maxIndex)],
              end |-> [min |-> 0, max |-> maxIndex,
                       value |-> RangeValue(maxIndex, 0, maxIndex)],
              done |-> TRUE]

----------------------------------------------------------------------------
(* MapModule *)

MapModuleMembers ==
    { "map", "geojsonLayer", "geojsonData", "selectedZipcode", "selectedLayer",
      "init", "style", "highlightFeature", "resetHighlight", "selectFeature",
      "deselectFeature", "onEachFeature", "addGeoJSON", "updateMapColors",
      "updateHoverDisplay", "updateDetailPanel", "hideDetailPanel", "createLegend" }

NoLayer == [t |-> "null", features |-> {}]

\* null in selectedZipcode, in selectedLayer and as the props of updateHoverDisplay
NoZip == 0

\* Math.round: the nearest integer, halves upward
MathRound(x) == (2 * x.n + x.d) \div (2 * x.d)

formatRent(rent) ==
    IF rent = Null \/ rent = Undefined THEN "No data"
    ELSE "$" \o toLocaleString(MathRound(rent))

\* Number.prototype.toFixed(1): one decimal, halves away from zero
toFixed1(x) ==
    LET tenths == (20 * AbsInt(x.n) + x.d) \div (2 * x.d)
    IN  (IF x.n < 0 THEN "-" ELSE "") \o Decimal(tenths \div 10) \o "."
            \o Digits[(tenths % 10) + 1]

formatPercentChange(percent) ==
    IF percent = Null THEN "N/A"
    ELSE (IF percent.n >= 0 THEN "+" ELSE "") \o toFixed1(percent)

\* what a panel shows: its heading and the three figures
EmptyContent == [heading |-> "", startRent |-> "", endRent |-> "", change |-> ""]

\* the heading and figures both panels write for a feature
ZipContent(this, zipcode) ==
    LET startRent == getStartRentForZipOn(this, zipcode)
        endRent == getEndRentForZipOn(this, zipcode)
        percentChange == getPercentChange(startRent, endRent)
    IN  [heading |-> Decimal(zipcode),
         startRent |-> formatRent(startRent),
         endRent |-> formatRent(endRent),
         change |-> formatPercentChange(percentChange)]

\* the innerHTML updateHoverDisplay(props) writes into #hover-panel
updateHoverDisplayOn(this, props) ==
    IF props = NoZip
    THEN LET nycData == getNYCAggregateDataOn(this)
         IN  [heading |-> "All NYC",
              startRent |-> formatRent(nycData.startRent),
              endRent |-> formatRent(nycData.endRent),
              change |-> formatPercentChange(nycData.percentChange)]
    ELSE ZipContent(this, props)

updateHoverDisplay(props) == updateHoverDisplayOn(DataUtils, props)

\* updateDetailPanel(props): #detail-panel afterwards; #hover-panel gains the
\* hidden class
updateDetailPanelOn(this, props) == [hidden |-> FALSE, content |-> ZipContent(this, props)]

updateDetailPanel(props) == updateDetailPanelOn(DataUtils, props)

\* hideDetailPanel(): the two panels afterwards
hideDetailPanel ==
    [detailPanel |-> [detailPanel EXCEPT !.hidden = TRUE],
     hoverPanel |-> [hidden |-> FALSE, content |-> updateHoverDisplay(NoZip)]]

\* geojsonLayer.resetStyle(layer): the layer's style is computed anew
resetStyle(layer) == [fillColor EXCEPT ![layer] = style(layer)]

\* deselectFeature()
deselectFeature ==
    /\ fillColor' = IF selectedLayer # NoZip THEN resetStyle(selectedLayer) ELSE fillColor
    /\ selectedZipcode' = NoZip
    /\ selectedLayer' = NoZip
    /\ detailPanel' = hideDetailPanel.detailPanel
    /\ hoverPanel' = hideDetailPanel.hoverPanel

\* updateMapColors(), called by a handler that has left DataUtils as `this`
updateMapColors(this) ==
    IF geojsonLayer.t # "obj"
    THEN UNCHANGED <<fillColor, detailPanel, hoverPanel>>
    ELSE /\ fillColor' = [z \in geojsonLayer.features |-> styleOn(this, z)]
         /\ IF selectedZipcode # NoZip /\ selectedLayer # NoZip
            THEN /\ detailPanel' = updateDetailPanelOn(this, selectedLayer)
                 /\ hoverPanel' = [hoverPanel EXCEPT !.hidden = TRUE]
            ELSE /\ detailPanel' = detailPanel
                 /\ hoverPanel' = [hoverPanel EXCEPT !.content =
                                      updateHoverDisplayOn(this, NoZip)]

----------------------------------------------------------------------------
(* App.init *)

NoCall == [fn |-> "none", args |-> <<>>, value |-> <<>>]

NoEvent == [type |-> "none", target |-> "none"]

HtmlDetailPanel == [hidden |-> TRUE, content |-> EmptyContent]

HtmlHoverPanel == [hidden |-> FALSE, content |-> EmptyContent]

\* MapModule's initial fields and the panels as the page declares them
InitialPage ==
    /\ selectedZipcode = NoZip
    /\ selectedLayer = NoZip
    /\ fillColor = <<>>
    /\ detailPanel = HtmlDetailPanel
    /\ hoverPanel = HtmlHoverPanel
    /\ event = NoEvent

Init ==
    /\ timeSeries = NoObject
    /\ availableDates = Arr(<<>>)
    /\ startDateIndex = 0
    /\ endDateIndex = 0
    /\ pc = "idle"
    /\ geoData = GeoPending
    /\ timeSeriesLoaded = "pending"
    /\ response = NoBody
    /\ settled = <<>>
    /\ startSlider = HtmlSlider
    /\ endSlider = HtmlSlider
    /\ errorShown = 0
    /\ sliderSetup = FALSE
    /\ geojsonLayer = NoLayer
    /\ legend = FALSE
    /\ listenersAttached = FALSE
    /\ InitialPage
    /\ ret = NoCall

\* DOMContentLoaded: App.init runs up to the await of Promise.all
DOMContentLoaded ==
    /\ pc = "idle"
    /\ pc' = "loading"
    /\ UNCHANGED <<storeVars, geoData, timeSeriesLoaded, response, settled, startSlider,
                   endSlider, errorShown, sliderSetup, geojsonLayer, legend,
                   listenersAttached, uiVars, ret>>

\* loadGeoJSON resolves: a feature collection, or null after a caught error
LoadGeoJSONSettles(result) ==
    /\ pc = "loading"
    /\ geoData = GeoPending
    /\ geoData' = result
    /\ settled' = Append(settled, "geo")
    /\ UNCHANGED <<storeVars, pc, timeSeriesLoaded, response, startSlider, endSlider,
                   errorShown, sliderSetup, geojsonLayer, legend, listenersAttached,
                   uiVars, ret>>

\* loadTimeSeries resolves
LoadTimeSeriesSettles(body) ==
    /\ pc = "loading"
    /\ timeSeriesLoaded = "pending"
    /\ LET new == loadTimeSeries(body, Store)
       IN  /\ timeSeries' = new.timeSeries
           /\ availableDates' = new.availableDates
           /\ startDateIndex' = new.startDateIndex
           /\ endDateIndex' = new.endDateIndex
           /\ timeSeriesLoaded' = IF new.result THEN "true" ELSE "false"
    /\ response' = body
    /\ settled' = Append(settled, "ts")
    /\ UNCHANGED <<pc, geoData, startSlider, endSlider, errorShown, sliderSetup,
                   geojsonLayer, legend, listenersAttached, uiVars, ret>>

\* !geoData && !timeSeriesLoaded
LoadFailedBoth(geo, loaded) == geo.t = "null" /\ loaded = "false"

\* !geoData || !timeSeriesLoaded
LoadFailed(geo, loaded) == geo.t = "null" \/ loaded = "false"

\* Promise.all resolved: App.init runs from line 31 to its return or throw.
\* MapModule has no member createTop10Control, so the call at line 46 throws a
\* TypeError and setupEventListeners (line 49) is not reached.
InitContinues ==
    /\ pc = "loading"
    /\ geoData # GeoPending
    /\ timeSeriesLoaded # "pending"
    /\ IF LoadFailed(geoData, timeSeriesLoaded)
       THEN /\ errorShown' = errorShown + 1
            /\ pc' = "failed"
            /\ UNCHANGED <<startSlider, endSlider, sliderSetup, geojsonLayer, legend,
                           listenersAttached, fillColor>>
       ELSE /\ startSlider' = setupSlider.start
            /\ endSlider' = setupSlider.end
            /\ sliderSetup' = setupSlider.done
            /\ geojsonLayer' = [t |-> "obj", features |-> geoData.features]
            /\ fillColor' = [z \in geoData.features |-> style(z)]
            /\ legend' = TRUE
            /\ IF "createTop10Control" \in MapModuleMembers
               THEN /\ listenersAttached' = TRUE
                    /\ pc' = "done"
               ELSE /\ listenersAttached' = listenersAttached
                    /\ pc' = "threw"
            /\ errorShown' = errorShown
    /\ UNCHANGED <<storeVars, geoData, timeSeriesLoaded, response, settled,
                   selectedZipcode, selectedLayer, detailPanel, hoverPanel, event, ret>>

\* the user moves the start slider to `raw`: the range input takes the value,
\* and the input listener of app.js:88, if setupEventListeners attached it, runs
StartSliderInput(raw) ==
    /\ pc # "idle"
    /\ event' = [type |-> "input", target |-> "start-slider"]
    /\ UNCHANGED <<timeSeries, availableDates, endDateIndex, pc, geoData, timeSeriesLoaded,
                   response, settled, endSlider, errorShown, sliderSetup, geojsonLayer,
                   legend, listenersAttached, selectedZipcode, selectedLayer, ret>>
    /\ LET value == RangeValue(raw, startSlider.min, startSlider.max)
           endVal == endSlider.value
           startVal == IF value > endVal THEN endVal ELSE value
       IN  IF listenersAttached
           THEN /\ startSlider' = [startSlider EXCEPT !.value =
                        IF value > endVal
                        THEN RangeValue(startVal, startSlider.min, startSlider.max)
                        ELSE value]
                /\ startDateIndex' = startVal
                /\ updateMapColors([DataUtils EXCEPT !.startDateIndex = startVal])
           ELSE /\ startSlider' = [startSlider EXCEPT !.value = value]
                /\ startDateIndex' = startDateIndex
                /\ UNCHANGED <<fillColor, detailPanel, hoverPanel>>

\* the user moves the end slider to `raw`: the range input takes the value,
\* and the input listener of app.js:104, if setupEventListeners attached it, runs
EndSliderInput(raw) ==
    /\ pc # "idle"
    /\ event' = [type |-> "input", target |-> "end-slider"]
    /\ UNCHANGED <<timeSeries, availableDates, startDateIndex, pc, geoData,
                   timeSeriesLoaded, response, settled, startSlider, errorShown,
                   sliderSetup, geojsonLayer, legend, listenersAttached, selectedZipcode,
                   selectedLayer, ret>>
    /\ LET value == RangeValue(raw, endSlider.min, endSlider.max)
           startVal == startSlider.value
           endVal == IF value < startVal THEN startVal ELSE value
       IN  IF listenersAttached
           THEN /\ endSlider' = [endSlider EXCEPT !.value =
                        IF value < startVal
                        THEN RangeValue(endVal, endSlider.min, endSlider.max)
                        ELSE value]
                /\ endDateIndex' = endVal
                /\ updateMapColors([DataUtils EXCEPT !.endDateIndex = endVal])
           ELSE /\ endSlider' = [endSlider EXCEPT !.value = value]
                /\ endDateIndex' = endDateIndex
                /\ UNCHANGED <<fillColor, detailPanel, hoverPanel>>

pageVars == <<pc, geoData, timeSeriesLoaded, response, settled, startSlider, endSlider,
              errorShown, sliderSetup, geojsonLayer, legend, listenersAttached>>

\* the pointer enters the feature of ZIP z: highlightFeature
MouseOver(z) ==
    /\ geojsonLayer.t = "obj"
    /\ z \in geojsonLayer.features
    /\ event' = [type |-> "mouseover", target |-> "feature"]
    /\ hoverPanel' = IF selectedLayer = z THEN hoverPanel
                     ELSE [hoverPanel EXCEPT !.content = updateHoverDisplay(z)]
    /\ UNCHANGED <<storeVars, pageVars, selectedZipcode, selectedLayer, fillColor,
                   detailPanel, ret>>

\* the pointer leaves the feature of ZIP z: resetHighlight
MouseOut(z) ==
    /\ geojsonLayer.t = "obj"
    /\ z \in geojsonLayer.features
    /\ event' = [type |-> "mouseout", target |-> "feature"]
    /\ IF selectedLayer = z
       THEN UNCHANGED <<fillColor, hoverPanel>>
       ELSE /\ fillColor' = resetStyle(z)
            /\ hoverPanel' = [hoverPanel EXCEPT !.content = updateHoverDisplay(NoZip)]
    /\ UNCHANGED <<storeVars, pageVars, selectedZipcode, selectedLayer, detailPanel, ret>>

\* a click on the feature of ZIP z: selectFeature
Click(z) ==
    /\ geojsonLayer.t = "obj"
    /\ z \in geojsonLayer.features
    /\ event' = [type |-> "click", target |-> "feature"]
    /\ IF selectedZipcode = z
       THEN deselectFeature
       ELSE /\ fillColor' = IF selectedLayer # NoZip THEN resetStyle(selectedLayer)
                            ELSE fillColor
            /\ selectedZipcode' = z
            /\ selectedLayer' = z
            /\ detailPanel' = updateDetailPanel(z)
            /\ hoverPanel' = [hoverPanel EXCEPT !.hidden = TRUE]
    /\ UNCHANGED <<storeVars, pageVars, ret>>

\* a click on #close-detail, which the detail panel shows while it is not
\* hidden; the listener of app.js:120, if setupEventListeners attached it, runs
CloseClick ==
    /\ pc # "idle"
    /\ ~detailPanel.hidden
    /\ event' = [type |-> "click", target |-> "close-detail"]
    /\ IF listenersAttached
       THEN deselectFeature
       ELSE UNCHANGED <<selectedZipcode, selectedLayer, fillColor, detailPanel, hoverPanel>>
    /\ UNCHANGED <<storeVars, pageVars, ret>>

\* where in the sidebar a click lands: the sidebar itself, an element of
\* class sidebar-header, or any other descendant
SidebarTargets == {"sidebar", "sidebar-header", "descendant"}

\* a click inside #sidebar; the listener of app.js:125, if setupEventListeners
\* attached it, runs
SidebarClick(target) ==
    /\ pc # "idle"
    /\ event' = [type |-> "click", target |-> target]
    /\ IF listenersAttached /\ target \in {"sidebar", "sidebar-header"}
       THEN deselectFeature
       ELSE UNCHANGED <<selectedZipcode, selectedLayer, fillColor, detailPanel, hoverPanel>>
    /\ UNCHANGED <<storeVars, pageVars, ret>>

\* the ZIP codes of the features a load can deliver
Zips == UNION { g.features : g \in GeoResults }

Next ==
    \/ DOMContentLoaded
    \/ \E result \in GeoResults : LoadGeoJSONSettles(result)
    \/ \E body \in Bodies : LoadTimeSeriesSettles(body)
    \/ InitContinues
    \/ \E raw \in RawIndex : StartSliderInput(raw)
    \/ \E raw \in RawIndex : EndSliderInput(raw)
    \/ \E z \in Zips : MouseOver(z)
    \/ \E z \in Zips : MouseOut(z)
    \/ \E z \in Zips : Click(z)
    \/ CloseClick
    \/ \E target \in SidebarTargets : SidebarClick(target)

Spec == Init /\ [][Next]_vars

\* the browser delivers DOMContentLoaded, both fetches settle, and the
\* continuation of App.init after the await is run; the user need not act
LiveSpec ==
    /\ Spec
    /\ WF_vars(DOMContentLoaded)
    /\ WF_vars(\E result \in GeoResults : LoadGeoJSONSettles(result))
    /\ WF_vars(\E body \in Bodies : LoadTimeSeriesSettles(body))
    /\ WF_vars(InitContinues)

----------------------------------------------------------------------------
(* The store's functions applied to bounded stores *)

\* the selections of a date axis; loadTimeSeries leaves (0, -1) on an empty one
Selections(a) ==
    IF a = <<>> THEN { <<0, -1>> }
    ELSE { p \in (0..(Len(a) - 1)) \X (0..(Len(a) - 1)) : p[1] <= p[2] }

CommonSeries == Series(R(1000), R(1100))

OddSeries == { Series(R(1000), R(500)), Series(R(1000), R(1200)), Series(R(1000), Undefined) }

MinTopZips == 11

\* ranking tables: ZIPs 1..n, all on the common series but at most MaxOdd
TopTables ==
    UNION { UNION { { [z \in 1..n |-> IF z \in S THEN g[z] ELSE CommonSeries] :
                          g \in [S -> OddSeries] } :
                    S \in { T \in SUBSET (1..n) : Cardinality(T) <= MaxOdd } } :
            n \in MinTopZips..MaxTopZips }

StoreInit ==
    /\ \/ /\ timeSeries = NoObject
          /\ availableDates = Arr(<<>>)
          /\ startDateIndex = 0
          /\ endDateIndex = 0
       \/ \E a \in DateAxes :
             /\ timeSeries = UndefinedObject
             /\ availableDates = Arr(a)
             /\ startDateIndex = 0
             /\ endDateIndex = Len(a) - 1
       \/ \E t \in SmallTables, a \in DateAxes :
             \E sel \in Selections(a) :
                /\ timeSeries = Obj(t)
                /\ availableDates = Arr(a)
                /\ startDateIndex = sel[1]
                /\ endDateIndex = sel[2]
       \/ \E t \in TopTables :
             /\ timeSeries = Obj(t)
             /\ availableDates = Arr(<<Jan, Feb>>)
             /\ startDateIndex = 0
             /\ endDateIndex = 1
    /\ pc = "idle"
    /\ geoData = GeoPending
    /\ timeSeriesLoaded = "pending"
    /\ response = NoBody
    /\ settled = <<>>
    /\ startSlider = HtmlSlider
    /\ endSlider = HtmlSlider
    /\ errorShown = 0
    /\ sliderSetup = FALSE
    /\ geojsonLayer = NoLayer
    /\ legend = FALSE
    /\ listenersAttached = FALSE
    /\ InitialPage
    /\ ret = NoCall

\* ZIP codes asked for: those of a small table and one more
ZipArgs == 1..(MaxZips + 1)

CallGetRentForZip(zipcode) ==
    /\ ret' = [fn |-> "getRentForZip", args |-> <<zipcode>>,
               value |-> <<getStartRentForZip(zipcode), getEndRentForZip(zipcode),
                           style(zipcode)>>]
    /\ UNCHANGED <<storeVars, appVars>>

CallGetNYCAggregateData ==
    /\ ret' = [fn |-> "getNYCAggregateData", args |-> <<>>, value |-> <<getNYCAggregateData>>]
    /\ UNCHANGED <<storeVars, appVars>>

CallGetTop10ByChange ==
    /\ ret' = [fn |-> "getTop10ByChange", args |-> <<>>, value |-> getTop10ByChange]
    /\ UNCHANGED <<storeVars, appVars>>

StoreNext ==
    \/ \E zipcode \in ZipArgs : CallGetRentForZip(zipcode)
    \/ CallGetNYCAggregateData
    \/ CallGetTop10ByChange

StoreSpec == StoreInit /\ [][StoreNext]_vars

\* arguments of getPercentChange: absent, zero, rents and averages of rents
RentArgs ==
    { Null, R(0), R(1), R(2), R(3), R(500), R(1000), Num(2101, 2), R(1100), R(2000) }

CallGetPercentChange(startRent, endRent) ==
    /\ ret' = [fn |-> "getPercentChange", args |-> <<startRent, endRent>>,
               value |-> <<getPercentChange(startRent, endRent)>>]
    /\ UNCHANGED <<storeVars, appVars>>

PercentNext == \E startRent \in RentArgs, endRent \in RentArgs :
                   CallGetPercentChange(startRent, endRent)

PercentSpec == Init /\ [][PercentNext]_vars

MaxColorStep == 110   \* rents 0, 50, ..., 50 * MaxColorStep are coloured

\* arguments of getColor: absent values, a negative number, multiples of 50
\* through and past the breaks, and the half dollars either side of each break
ColorArgs ==
    { Null, Undefined, R(-1) }
    \cup { R(50 * k) : k \in 0..MaxColorStep }
    \cup { Num(2 * breaks[i] - 1, 2) : i \in 1..Len(breaks) }
    \cup { Num(2 * breaks[i] + 1, 2) : i \in 1..Len(breaks) }

CallGetColor(rent) ==
    /\ ret' = [fn |-> "getColor", args |-> <<rent>>, value |-> <<getColor(rent)>>]
    /\ UNCHANGED <<storeVars, appVars>>

CallGetLegendItems ==
    /\ ret' = [fn |-> "getLegendItems", args |-> <<>>, value |-> getLegendItems]
    /\ UNCHANGED <<storeVars, appVars>>

ColorNext ==
    \/ \E rent \in ColorArgs : CallGetColor(rent)
    \/ CallGetLegendItems

ColorSpec == Init /\ [][ColorNext]_vars

----------------------------------------------------------------------------
(* Properties *)

DateCount == Len(availableDates.a)

SelectionInRange ==
    /\ 0 <= startDateIndex
    /\ startDateIndex <= endDateIndex
    /\ endDateIndex <= DateCount - 1

\* C1 as stated: after a successful load and any slider events the selection
\* satisfies 0 <= startDateIndex <= endDateIndex <= len - 1.
C1_SelectionInRangeAnyAxis ==
    timeSeriesLoaded = "true" => SelectionInRange

\* C1 amended: after a successful load of a date axis with at least one
\* entry, and any slider events, 0 <= startDateIndex <= endDateIndex <= len - 1.
C1_SelectionInRange ==
    (timeSeriesLoaded = "true" /\ DateCount >= 1) => SelectionInRange

\* a load of three dates succeeded, App.init has returned or thrown, and both
\* sliders have been moved since
C1_Witness ==
    /\ timeSeriesLoaded = "true"
    /\ DateCount = 3
    /\ pc \in {"done", "threw"}
    /\ startSlider.value = 2
    /\ endSlider.value = 1

MinInt(a, b) == IF a < b THEN a ELSE b

MaxInt(a, b) == IF a > b THEN a ELSE b

ClampIndex(i) == MaxInt(0, MinInt(i, DateCount - 1))

\* C2: once the application has initialised on a non-empty date axis, a
\* start-slider event with raw index i sets startDateIndex to
\* min(clamp(i), endDateIndex) and leaves endDateIndex alone; an end-slider
\* event with raw index j sets endDateIndex to max(clamp(j), startDateIndex)
\* and leaves startDateIndex alone.
C2_SliderEventSetsIndex ==
    [][ \A raw \in RawIndex :
          (timeSeriesLoaded = "true" /\ DateCount >= 1 /\ pc \in {"done", "threw"}) =>
             /\ StartSliderInput(raw) =>
                   /\ startDateIndex' = MinInt(ClampIndex(raw), endDateIndex)
                   /\ endDateIndex' = endDateIndex
             /\ EndSliderInput(raw) =>
                   /\ endDateIndex' = MaxInt(ClampIndex(raw), startDateIndex)
                   /\ startDateIndex' = startDateIndex ]_vars

\* C3: a successful load of a body {dates, data} makes availableDates the
\* body's dates in their order, timeSeries the body's data, and the
\* selection (0, len - 1).
C3_LoadSetsStore ==
    response.kind = "ok" =>
        /\ timeSeriesLoaded = "true"
        /\ availableDates = response.dates
        /\ timeSeries = response.data
        /\ startDateIndex = 0
        /\ endDateIndex = Len(response.dates.a) - 1

\* a body whose dates are not in ascending order was loaded
C3_Witness ==
    /\ response.kind = "ok"
    /\ response.dates = Arr(<<Feb, Jan>>)
    /\ availableDates = Arr(<<Feb, Jan>>)
    /\ DOMAIN timeSeries.o = {1, 2}
    /\ endDateIndex = 1

NoLaterStep ==
    /\ sliderSetup = FALSE
    /\ startSlider.max = SliderHtmlMax
    /\ endSlider.max = SliderHtmlMax
    /\ geojsonLayer = NoLayer
    /\ legend = FALSE
    /\ listenersAttached = FALSE

\* C4: no step after the loads runs before both loads have settled, and when
\* either load failed, in either order of completion, App.init shows exactly
\* one error and runs none of the later steps.
C4_AllOrNothing ==
    /\ pc \in {"idle", "loading"} => (errorShown = 0 /\ NoLaterStep)
    /\ pc \notin {"idle", "loading"} => Len(settled) = 2
    /\ (pc \notin {"idle", "loading"} /\ (geoData = GeoNull \/ timeSeriesLoaded = "false")) =>
          /\ pc = "failed"
          /\ errorShown = 1
          /\ NoLaterStep
    /\ pc = "failed" => (geoData = GeoNull \/ timeSeriesLoaded = "false")

\* the time series loaded first and well, the GeoJSON failed after it, and
\* App.init has shown the error
C4_Witness ==
    /\ pc = "failed"
    /\ settled = <<"ts", "geo">>
    /\ timeSeriesLoaded = "true"
    /\ geoData = GeoNull
    /\ errorShown = 1

\* C5: getPercentChange(startRent, endRent) is absent exactly when an input
\* is absent or startRent is 0; otherwise it is (endRent - startRent) /
\* startRent * 100, positive exactly when endRent > startRent.
C5_PercentChange ==
    ret.fn = "getPercentChange" =>
        LET a == ret.args[1]
            b == ret.args[2]
            v == ret.value[1]
        IN  /\ (v = Null) <=> (a = Null \/ b = Null \/ (a.t = "num" /\ a.n = 0))
            /\ v # Null =>
                  /\ v.t = "num"
                  /\ v.n * (a.n * b.d) = v.d * 100 * (b.n * a.d - a.n * b.d)
                  /\ (v.n > 0) <=> QLess(a, b)

\* a rise from 1000 to 1100 came out as 10, and a start of 0 as absent
C5_Witness ==
    /\ ret.fn = "getPercentChange"
    /\ ret.args = <<R(1000), R(1100)>>
    /\ ret.value = <<R(10)>>

\* the value the rent table stores for a ZIP and a month, Undefined when the
\* table, the ZIP key or the month key is missing
Stored(zipcode, date) ==
    IF timeSeries.t = "obj" /\ zipcode \in DOMAIN timeSeries.o
       /\ date \in DOMAIN timeSeries.o[zipcode]
    THEN timeSeries.o[zipcode][date]
    ELSE Undefined

Reading(zipcode, date) ==
    IF Stored(zipcode, date) \in {Undefined, Null} THEN Null ELSE Stored(zipcode, date)

\* C6: getStartRentForZip / getEndRentForZip return the stored rent when the
\* ZIP key and the month key exist and the stored value is not absent, and
\* absent otherwise; a stored 0 is returned as 0, and the fill colour is the
\* no-data colour only for an absent end rent.
C6_RentAt ==
    ret.fn = "getRentForZip" =>
        /\ ret.value[1] = Reading(ret.args[1], getStartDate)
        /\ ret.value[2] = Reading(ret.args[1], getEndDate)
        /\ (ret.value[3] = NoDataColor) <=> (Reading(ret.args[1], getEndDate) = Null)

\* the ZIPs of the table whose start and end rents are both present
Qualifying ==
    IF timeSeries.t # "obj" THEN {}
    ELSE { z \in DOMAIN timeSeries.o :
               getStartRentForZip(z) # Null /\ getEndRentForZip(z) # Null }

RECURSIVE SumStartRents(_)
SumStartRents(S) ==
    IF S = {} THEN R(0)
    ELSE LET z == CHOOSE x \in S : TRUE
         IN  QAdd(getStartRentForZip(z), SumStartRents(S \ {z}))

RECURSIVE SumEndRents(_)
SumEndRents(S) ==
    IF S = {} THEN R(0)
    ELSE LET z == CHOOSE x \in S : TRUE
         IN  QAdd(getEndRentForZip(z), SumEndRents(S \ {z}))

C8_EmptyAggregate ==
    (ret.fn = "getNYCAggregateData" /\ Qualifying = {}) =>
        /\ ret.value[1].zipCount = R(0)
        /\ ret.value[1].startRent = Null
        /\ ret.value[1].endRent = Null
        /\ ret.value[1].percentChange = Null

\* the ZIPs of the table with a defined percent change
Changing ==
    IF timeSeries.t # "obj" THEN {}
    ELSE { z \in DOMAIN timeSeries.o :
               /\ getStartRentForZip(z) # Null
               /\ getEndRentForZip(z) # Null
               /\ getStartRentForZip(z) # R(0) }

Ranked == { ret.value[i].zipcode : i \in 1..Len(ret.value) }

\* every entry is a ZIP with a defined percent change, and at most 10 are returned
TopEntriesDefined ==
    /\ Len(ret.value) <= 10
    /\ \A i \in 1..Len(ret.value) :
          /\ ret.value[i].zipcode \in Changing
          /\ ret.value[i].percentChange # Null
          /\ ret.value[i].absChange = QAbs(ret.value[i].percentChange)

\* C9 as stated: getTop10ByChange returns at most 10 entries, strictly
\* descending in absolute percent change, none with an absent percent change.
C9_TopStrictlyDescending ==
    ret.fn = "getTop10ByChange" =>
        /\ TopEntriesDefined
        /\ \A i \in 1..Len(ret.value), j \in 1..Len(ret.value) :
              i < j => QLess(ret.value[j].absChange, ret.value[i].absChange)

\* C9 amended: getTop10ByChange returns at most 10 entries, in non-increasing
\* order of absolute percent change (equal values may be adjacent), none with
\* an absent percent change.
C9_TopDescending ==
    ret.fn = "getTop10ByChange" =>
        /\ TopEntriesDefined
        /\ \A i \in 1..Len(ret.value), j \in 1..Len(ret.value) :
              i < j => QLeq(ret.value[j].absChange, ret.value[i].absChange)

\* eleven ZIPs change, one more has no end rent, ten are returned, and the
\* first entry's absolute change exceeds the last's
C9_Witness ==
    /\ ret.fn = "getTop10ByChange"
    /\ Cardinality(Changing) = 11
    /\ Cardinality(DOMAIN timeSeries.o) = 12
    /\ Len(ret.value) = 10
    /\ QLess(ret.value[10].absChange, ret.value[1].absChange)

PercentOfZip(z) == getPercentChange(getStartRentForZip(z), getEndRentForZip(z))

\* C10: every ranked ZIP has a signed percent change at least that of every
\* ZIP with a defined percent change that is not ranked.
C10_TopByIncrease ==
    ret.fn = "getTop10ByChange" =>
        \A i \in 1..Len(ret.value) :
            \A z \in Changing \ Ranked :
                QLeq(PercentOfZip(z), ret.value[i].percentChange)

IsAbsent(v) == v = Null \/ v = Undefined

PaletteIndex(color) == CHOOSE i \in 1..Len(colors) : colors[i] = color

BreaksAbove(rent) == { i \in 1..Len(breaks) : rent.n < breaks[i] * rent.d }

SetMin(S) == CHOOSE i \in S : \A j \in S : i <= j

\* the color a call of getColor must return for its argument
ColorStepHolds(call) ==
    LET rent == call.args[1]
        color == call.value[1]
    IN  IF IsAbsent(rent) THEN color = NoDataColor
        ELSE /\ BreaksAbove(rent) # {} => color = colors[SetMin(BreaksAbove(rent))]
             /\ rent.n >= 5000 * rent.d => color = colors[Len(colors)]
             /\ rent = R(1500) => color = colors[2]

\* C11: getColor is a monotonic step function over the breaks 1500..5000: an
\* absent rent gets the no-data color; a present rent gets the palette color
\* at the index of the first break strictly greater than it, and the last
\* palette color from 5000 up; getColor(1500) is the second color; and of two
\* calls with rents r1 <= r2 the first returns a palette index no greater
\* than the second.
C11_ColorMonotonicStep ==
    [][ /\ ret'.fn = "getColor" => ColorStepHolds(ret')
        /\ ( /\ ret.fn = "getColor" /\ ret'.fn = "getColor"
              /\ ~IsAbsent(ret.args[1]) /\ ~IsAbsent(ret'.args[1])
              /\ QLeq(ret.args[1], ret'.args[1]) )
           => PaletteIndex(ret.value[1]) <= PaletteIndex(ret'.value[1]) ]_vars

\* getColor was called on the first break and returned the second color
C11_Witness ==
    /\ ret.fn = "getColor"
    /\ ret.args = << R(1500) >>
    /\ ret.value = << colors[2] >>

\* the lower thresholds of the palette entries after the first
LegendThresholds == << 1500, 2000, 2500, 3000, 3500, 4000, 4500 >>

RangeLabels ==
    << "< $1,500", "$1,500 - $2,000", "$2,000 - $2,500", "$2,500 - $3,000",
       "$3,000 - $3,500", "$3,500 - $4,000", "$4,000 - $4,500" >>

\* one entry per palette color in palette order, then the "No data" entry
LegendShape(items) ==
    /\ Len(items) = Len(colors) + 1
    /\ \A i \in 1..Len(colors) : items[i].color = colors[i]
    /\ \A i \in 1..Len(RangeLabels) : items[i].label = RangeLabels[i]
    /\ \A i \in 1..(Len(LegendThresholds) - 1) : LegendThresholds[i] < LegendThresholds[i + 1]
    /\ items[Len(colors) + 1] = [color |-> NoDataColor, label |-> "No data"]

\* C12 as stated: getLegendItems returns palette length + 1 entries, one per
\* palette color in palette order, labelled "< $1,500", "$1,500 - $2,000"
\* and so on with increasing thresholds, the last palette color labelled
\* "$5,000+", followed by a "No data" entry with the no-data color.
C12_LegendEndsAt5000 ==
    ret.fn = "getLegendItems" =>
        /\ LegendShape(ret.value)
        /\ ret.value[Len(colors)].label = "$5,000+"

\* C12 amended: getLegendItems returns palette length + 1 entries, one per
\* palette color in palette order, labelled "< $1,500", "$1,500 - $2,000"
\* and so on up to "$4,000 - $4,500" with increasing thresholds, the last
\* palette color labelled "$4,500+", followed by a "No data" entry with the
\* no-data color.
C12_LegendEndsAt4500 ==
    ret.fn = "getLegendItems" =>
        /\ LegendShape(ret.value)
        /\ ret.value[Len(colors)].label = "$4,500+"

\* getLegendItems was called and returned nine entries
C12_Witness ==
    /\ ret.fn = "getLegendItems"
    /\ Len(ret.value) = 9
    /\ ret.value[1].label = "< $1,500"

\* the range the label of palette entry i states: lower bound inclusive,
\* upper bound exclusive; the first has no lower bound, the last no upper
InLabelledRange(i, rent) ==
    /\ i = 1 \/ LegendThresholds[i - 1] * rent.d <= rent.n
    /\ i = Len(colors) \/ rent.n < LegendThresholds[i] * rent.d

\* C13: the scale runs from "< $1,500" to "$4,500+" and the legend agrees
\* with the coloring: a present rent gets the color of the one legend entry
\* whose labelled range contains it, the last rent entry taking every rent
\* from 4500 up; an absent rent gets the color of the "No data" entry.
C13_LegendAgreesWithColor ==
    ret.fn = "getColor" =>
        LET rent == ret.args[1]
            color == ret.value[1]
            items == getLegendItems
        IN  /\ \A i \in 1..Len(RangeLabels) : items[i].label = RangeLabels[i]
            /\ items[Len(colors)].label = "$4,500+"
            /\ items[Len(colors) + 1].label = "No data"
            /\ IF IsAbsent(rent) THEN color = items[Len(colors) + 1].color
               ELSE /\ \E i \in 1..Len(colors) : InLabelledRange(i, rent)
                    /\ \A i \in 1..Len(colors) :
                          InLabelledRange(i, rent) => color = items[i].color
                    /\ rent.n >= 4500 * rent.d => color = items[Len(colors)].color

\* getColor was called on 4500 and returned the color the legend labels "$4,500+"
C13_Witness ==
    /\ ret.fn = "getColor"
    /\ ret.args = << R(4500) >>
    /\ ret.value = << getLegendItems[Len(colors)].color >>

\* ZIP y comes before ZIP z in the ranking: larger absolute change, or the
\* same absolute change and earlier in the table's iteration order
RanksBefore(y, z) ==
    LET ay == QAbs(PercentOfZip(y))
        az == QAbs(PercentOfZip(z))
    IN  QLess(az, ay) \/ (ay = az /\ y < z)

FailedFetchKinds == {"unreachable", "httpError", "badJson", "jsonNull", "noDates", "noData"}

\* C17: a loadTimeSeries that meets an unreachable URL, a non-OK response, an
\* unparsable body or a payload missing `dates` or `data` resolves to false
\* and leaves timeSeries, availableDates, startDateIndex and endDateIndex as
\* they were before the call.
C17_FailedLoadLeavesStore ==
    [][ (response = NoBody /\ response'.kind \in FailedFetchKinds) =>
            /\ timeSeriesLoaded' = "false"
            /\ UNCHANGED storeVars ]_vars

\* C16: if both loads succeed, App.init eventually completes every step in
\* order: sliders set up, feature layer added, legend created, ranking panel
\* created, event listeners attached.
C16_InitCompletes ==
    (geoData.t = "obj" /\ timeSeriesLoaded = "true") ~>
        (pc = "done" /\ geojsonLayer.t = "obj" /\ legend /\ listenersAttached)

\* C18: once a successful load of a date axis with at least one entry has
\* been followed by App.init running to its end, the start slider's value is
\* startDateIndex and the end slider's value is endDateIndex.
C18_SlidersMirrorStore ==
    (timeSeriesLoaded = "true" /\ DateCount >= 1 /\ pc \in {"done", "threw"}) =>
        /\ startSlider.value = startDateIndex
        /\ endSlider.value = endDateIndex

\* the three figures a panel shows for a start rent and an end rent
FiguresOf(startRent, endRent) ==
    << formatRent(startRent), formatRent(endRent),
       formatPercentChange(getPercentChange(startRent, endRent)) >>

FiguresIn(panel) == << panel.content.startRent, panel.content.endRent, panel.content.change >>

\* after a step, every feature is filled with the color of its end rent, and
\* the visible panel shows the figures of the selected ZIP, or of the city
\* when none is selected, all read from DataUtils as the step left it
FiguresAreCurrent ==
    LET this == DataUtils'
        nycData == getNYCAggregateDataOn(this)
    IN  /\ \A z \in geojsonLayer'.features :
              fillColor'[z] = getColor(getEndRentForZipOn(this, z))
        /\ IF selectedZipcode' # NoZip
           THEN /\ ~detailPanel'.hidden
                /\ FiguresIn(detailPanel') =
                       FiguresOf(getStartRentForZipOn(this, selectedZipcode'),
                                 getEndRentForZipOn(this, selectedZipcode'))
           ELSE /\ ~hoverPanel'.hidden
                /\ FiguresIn(hoverPanel') = FiguresOf(nycData.startRent, nycData.endRent)

\* C14: after every slider event, in any sequence with hover, select and
\* deselect events, each feature's fill color is getColor of its end rent for
\* the current selection, and the visible panel (the detail panel of the
\* selected ZIP, or the citywide aggregate when none is selected) shows start
\* rent, end rent and percent change computed from the current selection.
C14_NoStaleFigure ==
    [][ \A raw \in RawIndex :
          ( /\ pc \in {"done", "threw"}
            /\ StartSliderInput(raw) \/ EndSliderInput(raw) )
          => FiguresAreCurrent ]_vars

\* C19: under any sequence of hover, mouse-out, click, close and slider
\* events, selectedZipcode is null exactly when selectedLayer is null and the
\* selected layer is the one feature of the selected ZIP; the detail panel is
\* visible and the hover panel hidden exactly when a ZIP is selected; a click
\* on the selected ZIP deselects it; and a click on the close control leaves
\* no ZIP selected and the citywide aggregate shown.
C19_SelectionAndPanels ==
    [][ /\ (selectedZipcode' = NoZip) <=> (selectedLayer' = NoZip)
        /\ selectedLayer' = selectedZipcode'
        /\ (~detailPanel'.hidden) <=> (selectedZipcode' # NoZip)
        /\ hoverPanel'.hidden <=> (selectedZipcode' # NoZip)
        /\ \A z \in Zips : (Click(z) /\ selectedZipcode = z) => selectedZipcode' = NoZip
        /\ CloseClick =>
              /\ selectedZipcode' = NoZip
              /\ ~hoverPanel'.hidden
              /\ hoverPanel'.content.heading = "All NYC"
              /\ FiguresIn(hoverPanel') =
                     FiguresOf(getNYCAggregateData.startRent, getNYCAggregateData.endRent)
      ]_vars
====
